---------------------------- MODULE Spec2Model ----------------------------
(***************************************************************************)
(* RequestTracker (src/src/request-tracker.js): the request coalescing     *)
(* engine of Hogo.  The tracker runs on the JavaScript event loop, so one  *)
(* call of its API (with every callback it invokes synchronously, and      *)
(* every call those callbacks make back into the tracker) is one atomic    *)
(* step.  The calls are written as operators from a tracker state to the   *)
(* tracker state after the call; an action applies one call to the current *)
(* state.  Hogo.handleRequest (hogo.js) and Ship (src/src/ship.js) come    *)
(* after the tracker: HogoSpec drives the tracker the way Hogo does.        *)
(***************************************************************************)
EXTENDS Naturals, Sequences, FiniteSets

\* ------------------------------------------------------------------ bounds
\* the number of requests (callers of the tracker) in a run
MaxCallers == 3
\* how many times one originator may call setResult/setError on its handle
MaxReports == 1
\* how many sink callbacks may throw in a run
MaxThrows == 1
\* how many middlewares app.use registers
MaxMiddlewares == 3
\* how many times one middleware may call next() for a request
MaxNextCalls == 2

\* ------------------------------------------------------------ value universe
Callers == 1..MaxCallers
Methods == {"GET"}

\* JavaScript null, and the values `if (x)` treats as false
NULL == "null"

\* the urls requested, as path and query string (NULL: none): they differ in
\* the query string only
UrlParts == <<[path |-> "/a", query |-> NULL], [path |-> "/a", query |-> "x=1"]>>
\* the url as the request carries it
UrlText(p) == IF p.query = NULL THEN p.path ELSE p.path \o "?" \o p.query
UrlSeq == [i \in 1..Len(UrlParts) |-> UrlText(UrlParts[i])]
Urls == {UrlSeq[i] : i \in 1..Len(UrlSeq)}
\* a url no route is bound for, and the urls a request may carry
UnroutedParts == [path |-> "/missing", query |-> NULL]
RequestUrls == UrlSeq \o <<UrlText(UnroutedParts)>>
\* url.split('?')[0]
PathOf(url) ==
  (CHOOSE p \in {UrlParts[i] : i \in 1..Len(UrlParts)} \cup {UnroutedParts} :
     UrlText(p) = url).path
Falsy == {NULL, "undefined", "0", ""}
Truthy(x) == x \notin Falsy

\* what an originator may pass to setResult and to setError
Values == {"v1"}
ErrorValues == {"boom", ""}
\* the message of the Error the deadline timer reports
TimeoutError == "Request flight timeout exceeded"
\* the value a re-entrant callback reports
ReentrantValue == "v2"

\* what a waiter callback does besides receiving its outcome, the first time
\* it is invoked: nothing, a new getOrCreateFlight for its key (a retry), or
\* a setResult on the handle of its flight
Scripts == {"none", "rejoin", "report"}
\* the same, and the callback that throws
ThrowScripts == Scripts \cup {"throw"}

NoRec == 0

\* a createFlightKey that leaves the query string out of the key
createFlightKeyByPath(method, url) == method \o ":" \o PathOf(url)

createFlightKey(method, url) == method \o ":" \o url

Keys == {createFlightKey(m, u) : m \in Methods, u \in Urls}

VARIABLES
  flights,    \* this.flights: key -> id of the flightData stored (NoRec: absent)
  recs,       \* every flightData object created so far, by id
  timers,     \* ids of the records whose setTimeout is armed
  calls,      \* per sink (one per caller): the invocations it received
  callers,    \* per caller: the handle it holds, and what its
              \* getOrCreateFlight call found
  win,        \* per key: getOrCreateFlight calls and Originate decisions since
              \* the last completion, timeout or clear of that key
  cleared,    \* ids of the records clear() removed from the mapping
  thrown,     \* whether the last call on the tracker threw to its caller
  hogo        \* the Hogo instance serving the requests: its coalescing
              \* option and, per request, the Ship, the handler's position
              \* and the responses written to the client

vars == <<flights, recs, timers, calls, callers, win, cleared, thrown, hogo>>

\* the state a call starts in; scripts says what each sink's callback does
\* besides receiving its outcome, should this call invoke it for the first
\* time; exc says whether an exception is on its way up the call stack
Cur(scripts) ==
  [flights |-> flights, recs |-> recs, timers |-> timers, calls |-> calls,
   callers |-> callers, win |-> win, cleared |-> cleared,
   scripts |-> scripts, exc |-> FALSE]

\* the tracker after a call
Store(s) ==
  /\ flights' = s.flights
  /\ recs' = s.recs
  /\ timers' = s.timers
  /\ calls' = s.calls
  /\ callers' = s.callers
  /\ win' = s.win
  /\ cleared' = s.cleared
  /\ thrown' = s.exc

\* a call made on the tracker directly, not through a Hogo request
Commit(s) == Store(s) /\ UNCHANGED hogo

NoScripts == [c \in Callers |-> "none"]

\* the sinks that have thrown so far
Throwers ==
  {c \in Callers : \E i \in 1..Len(calls[c]) : calls[c][i].threw}

\* the scripts of the sinks S; every other sink only receives its outcome
ScriptsFor(S) ==
  {sc \in [Callers -> Scripts] : \A c \in Callers \ S : sc[c] = "none"}

\* the same, with sinks that throw among S
ThrowScriptsFor(S) ==
  {sc \in [Callers -> ThrowScripts] :
     /\ \A c \in Callers \ S : sc[c] = "none"
     /\ Cardinality(Throwers \cup {c \in Callers : sc[c] = "throw"})
          <= MaxThrows}

\* the sinks a call on key may invoke for the first time: the waiters of the
\* record stored under key (a record created during the call has none)
FirstTime(key) ==
  IF key \notin Keys THEN {}
  ELSE IF flights[key] = NoRec THEN {}
  ELSE {recs[flights[key]].waiters[i] :
          i \in 1..Len(recs[flights[key]].waiters)} \cap
       {c \in Callers : calls[c] = <<>>}

Min(S) == CHOOSE x \in S : \A y \in S : x <= y

IdleCaller == [pc |-> "idle", key |-> NULL, rec |-> NoRec, isNew |-> FALSE,
               reports |-> 0, found |-> "none", prior |-> FALSE,
               fresh |-> FALSE]

TrackerInit ==
  /\ flights = [k \in Keys |-> NoRec]
  /\ recs = <<>>
  /\ timers = {}
  /\ calls = [c \in Callers |-> <<>>]
  /\ callers = [c \in Callers |-> IdleCaller]
  /\ win = [k \in Keys |-> [calls |-> 0, origs |-> 0]]
  /\ cleared = {}
  /\ thrown = FALSE

\* ------------------------------------------------- JavaScript values, Ship

\* a JavaScript value: its type tag and its text (for an object, its JSON)
JsNull == [t |-> "null", v |-> "null"]
JsStr(text) == [t |-> "string", v |-> text]
JsObj(json) == [t |-> "object", v |-> json]

\* typeof x
typeof(x) == IF x.t = "null" THEN "object" ELSE x.t

\* String(x)
String(x) == IF x.t = "object" THEN "[object Object]" ELSE x.v

\* JSON.stringify(x)
JSONstringify(x) == IF x.t = "string" THEN "\"" \o x.v \o "\"" ELSE x.v

\* the status codes in use, and their decimal text
StatusCodes == {200, 201, 404, 500}
CodeText(code) ==
  CASE code = 200 -> "200" [] code = 201 -> "201"
    [] code = 404 -> "404" [] OTHER -> "500"

\* new Ship(res), with the handler's position, what res has been sent, how
\* many times res.writeHead was invoked, the headers set on res, and
\* req.method and req.url
NewRequest ==
  [headersSent |-> FALSE, statusCode |-> 200, responseData |-> JsNull,
   contentType |-> NULL, out |-> <<>>, h |-> "none", thrown |-> NULL,
   handled |-> <<>>, method |-> NULL, url |-> NULL, writes |-> 0,
   headers |-> {}]

\* res.writeHead(code, {'Content-Type': ctype}); res.end(payload): Node
\* throws when the response has been written already
CanWrite(q) == q.out = <<>>
Write(q, code, ctype, payload) ==
  [q EXCEPT !.out = Append(@, [status |-> code, ctype |-> ctype,
                                payload |-> payload]),
            !.writes = @ + 1]

\* the writeHead that throws
Refused(q) == [q EXCEPT !.writes = @ + 1]

\* ship.status(code)
status(q, code) ==
  IF q.headersSent THEN q ELSE [q EXCEPT !.statusCode = code]

\* ship.header(name, value)
header(q, name, value) ==
  IF q.headersSent THEN q ELSE [q EXCEPT !.headers = @ \cup {<<name, value>>}]

\* the body of deliver, json, text and html without the test of headersSent
RespondUnguarded(q, data, ctype, payload) ==
  LET q1 == [q EXCEPT !.responseData = data, !.contentType = ctype]
  IN IF CanWrite(q1)
       THEN [Write(q1, q1.statusCode, ctype, payload)
               EXCEPT !.headersSent = TRUE]
       ELSE Refused(q1)

\* the body shared by deliver, json, text and html
Respond(q, data, ctype, payload) ==
  IF q.headersSent THEN q
  ELSE LET q1 == [q EXCEPT !.responseData = data, !.contentType = ctype]
       IN IF CanWrite(q1)
            THEN [Write(q1, q1.statusCode, ctype, payload)
                    EXCEPT !.headersSent = TRUE]
            ELSE Refused(q1)

deliver(q, data) ==
  Respond(q, data, "application/octet-stream",
          IF typeof(data) = "string" THEN data.v ELSE String(data))

json(q, data) ==
  Respond(q, data, "application/json; charset=utf-8", JSONstringify(data))

text(q, data) ==
  Respond(q, data, "text/plain; charset=utf-8", String(data))

html(q, data) ==
  Respond(q, data, "text/html; charset=utf-8", String(data))

\* the errorData object of ship.error, its timestamp left abstract
ErrorData(message, code) ==
  JsObj("{\"error\":\"" \o message \o "\",\"status\":" \o CodeText(code)
          \o ",\"timestamp\":\"T\"}")

\* ship.error(message, code): the code goes to writeHead only
ship_error(q, message, code) ==
  IF q.headersSent THEN q
  ELSE LET errorData == ErrorData(message, code)
           q1 == [q EXCEPT !.responseData = errorData,
                           !.contentType = "application/json; charset=utf-8"]
       IN IF CanWrite(q1)
            THEN [Write(q1, code, q1.contentType, JSONstringify(errorData))
                    EXCEPT !.headersSent = TRUE]
            ELSE Refused(q1)

\* ship.getResponseContext()
getResponseContext(q) ==
  [data |-> q.responseData, contentType |-> q.contentType,
   statusCode |-> q.statusCode]

\* what a handler may send: a ship method, a status set before it or not
\* (200: not), and the data
SendMethods == {"deliver", "json", "text", "html", "error"}
SendCodes == {200, 404}
SendData == {JsStr("hi"), JsObj("{\"id\":1}")}
Handlers ==
  {hd \in [m : SendMethods, code : SendCodes, data : SendData] :
     hd.m = "error" => hd.data.t = "string"}

\* the name of the route handler among the functions executeHandler runs;
\* a middleware is named by its position in this.middlewares
HandlerRun == 0

\* this.middlewares (its length) and one executeHandler call: whether it has
\* started, its middlewareIndex, the functions running (innermost last), the
\* functions run so far, how many times each middleware has called next(),
\* the ship, and what each run of the handler found
NewChain ==
  [middlewares |-> 0, started |-> FALSE, middlewareIndex |-> 0,
   stack |-> <<>>, runs |-> <<>>,
   nexts |-> [mw \in 1..MaxMiddlewares |-> 0],
   ship |-> NewRequest, atHandler |-> <<>>]

\* new Hogo(options), with the handler bound to its routes
NewHogo(coalescing, handler) ==
  [coalescingEnabled |-> coalescing, handler |-> handler,
   reqs |-> [c \in Callers |-> NewRequest], chain |-> NewChain,
   stats |-> [totalRequests |-> 0, coalescedRequests |-> 0, errors |-> 0]]

Init ==
  /\ TrackerInit
  /\ hogo = NewHogo(TRUE, [m |-> "json", code |-> 200, data |-> JsObj("{\"id\":1}")])

\* ------------------------------------------------------------ the tracker

\* registerFlight without the setTimeout call: the record has no timer
registerFlightUnarmed(s, key) ==
  LET flightData == [key |-> key, waiters |-> <<>>, result |-> NULL,
                     error |-> NULL, completed |-> FALSE]
  IN [s EXCEPT !.recs = Append(@, flightData),
               !.flights[key] = Len(s.recs) + 1]

\* registerFlight on a mapping emptied first: the flights of the other keys
\* are dropped from it
registerFlightExclusive(s, key) ==
  LET flightData == [key |-> key, waiters |-> <<>>, result |-> NULL,
                     error |-> NULL, completed |-> FALSE]
  IN [s EXCEPT !.recs = Append(@, flightData),
               !.timers = @ \cup {Len(s.recs) + 1},
               !.flights = [k \in Keys |->
                              IF k = key THEN Len(s.recs) + 1 ELSE NoRec]]

\* registerFlight: a new pending flightData, its timer armed, stored under key
registerFlight(s, key) ==
  LET id == Len(s.recs) + 1
      flightData == [key |-> key, waiters |-> <<>>, result |-> NULL,
                     error |-> NULL, completed |-> FALSE]
  IN [s EXCEPT !.recs = Append(@, flightData),
               !.timers = @ \cup {id},
               !.flights[key] = id]

\* whether a record is as registerFlight creates it
Fresh(fd) ==
  fd.waiters = <<>> /\ fd.result = NULL /\ fd.error = NULL /\ ~fd.completed

\* getOrCreateFlight without the lookup: every call registers a new flight
getOrCreateFlightAlwaysNew(s, c, key) ==
  LET existing == s.flights[key]
      s1 == registerFlight(s, key)
      rec == Len(s1.recs)
  IN [s1 EXCEPT
        !.callers[c] =
           [pc |-> "got", key |-> key, rec |-> rec, isNew |-> TRUE,
            reports |-> 0,
            found |-> IF existing = NoRec THEN "none"
                      ELSE IF s.recs[existing].completed THEN "completed"
                      ELSE "pending",
            prior |-> (\E r \in 1..Len(s.recs) :
                         s.recs[r].key = key /\ s.recs[r].completed),
            fresh |-> (rec > Len(s.recs) /\ Fresh(s1.recs[rec]))],
        !.win[key] = [calls |-> @.calls + 1, origs |-> @.origs + 1]]

\* getOrCreateFlight without the test of completed: a record found in the
\* mapping is joined whatever its state
getOrCreateFlightIgnoresCompleted(s, c, key) ==
  LET existing == s.flights[key]
      pending == existing # NoRec
      s1 == IF pending THEN s ELSE registerFlight(s, key)
      rec == IF pending THEN existing ELSE Len(s1.recs)
  IN [s1 EXCEPT
        !.callers[c] =
           [pc |-> "got", key |-> key, rec |-> rec, isNew |-> ~pending,
            reports |-> 0,
            found |-> IF existing = NoRec THEN "none"
                      ELSE IF s.recs[existing].completed THEN "completed"
                      ELSE "pending",
            prior |-> (\E r \in 1..Len(s.recs) :
                         s.recs[r].key = key /\ s.recs[r].completed),
            fresh |-> (rec > Len(s.recs) /\ Fresh(s1.recs[rec]))],
        !.win[key] = [calls |-> @.calls + 1,
                      origs |-> @.origs + (IF pending THEN 0 ELSE 1)]]

\* getOrCreateFlight, called by caller c, who keeps the handle returned
\* (isNew, flightData) and remembers what the call found: the record stored
\* under the key ("none", "pending", "completed"), whether a record of the
\* key had completed before, and whether the record returned was fresh
getOrCreateFlight(s, c, key) ==
  LET existing == s.flights[key]
      pending == existing # NoRec /\ ~s.recs[existing].completed
      s1 == IF pending THEN s ELSE registerFlight(s, key)
      rec == IF pending THEN existing ELSE Len(s1.recs)
  IN [s1 EXCEPT
        !.callers[c] =
           [pc |-> "got", key |-> key, rec |-> rec, isNew |-> ~pending,
            reports |-> 0,
            found |-> IF existing = NoRec THEN "none"
                      ELSE IF s.recs[existing].completed THEN "completed"
                      ELSE "pending",
            prior |-> (\E r \in 1..Len(s.recs) :
                         s.recs[r].key = key /\ s.recs[r].completed),
            fresh |-> (rec > Len(s.recs) /\ Fresh(s1.recs[rec]))],
        !.win[key] = [calls |-> @.calls + 1,
                      origs |-> @.origs + (IF pending THEN 0 ELSE 1)]]

\* the window of a key closes at a completion, timeout or clear of that key
CloseWindow(s, K) ==
  [s EXCEPT !.win = [k \in Keys |->
                       IF k \in K THEN [calls |-> 0, origs |-> 0] ELSE @[k]]]

\* how many invocations the logs cs hold
Invocations(cs) ==
  Cardinality(UNION {{c} \X (1..Len(cs[c])) : c \in Callers})

RECURSIVE completeFlight(_, _, _, _, _)
RECURSIVE forEach(_, _, _, _, _, _, _)
\* getStats(): the size of the Map and, for each of its values in turn, the
\* key and the number of waiters (rec names the flightData object the entry
\* was made from; startTime and duration are clock readings, left out)
getStats(s) ==
  LET values == {s.flights[k] : k \in Keys} \ {NoRec}
      ids == [r \in 1..Len(s.recs) |-> r]
      IsValue(r) == r \in values
      fs == SelectSeq(ids, IsValue)
  IN [totalInFlight |-> Cardinality({k \in Keys : s.flights[k] # NoRec}),
      flights |-> [j \in 1..Len(fs) |->
                     [key |-> s.recs[fs[j]].key,
                      waiters |-> Len(s.recs[fs[j]].waiters),
                      rec |-> fs[j]]]]

RECURSIVE invoke(_, _, _, _, _, _)

\* one invocation callback(err, res) of a sink, made for record rec on
\* behalf of src (the handle or timer that completed it, or the outcome
\* the record stores), with what the callback itself calls; stats is what
\* getStats() lists for that record as the callback starts
invoke(s, sink, err, res, rec, src) ==
  LET entry == [err |-> err, res |-> res, rec |-> rec, src |-> src,
                at |-> Invocations(s.calls) + 1,
                stats |-> LET OfRec(f) == f.rec = rec
                          IN SelectSeq(getStats(s).flights, OfRec),
                threw |-> (s.calls[sink] = <<>> /\ s.scripts[sink] = "throw")]
      s1 == [s EXCEPT !.calls[sink] = Append(@, entry)]
      script == s.scripts[sink]
      key == s.callers[sink].key
      idle == {c \in Callers : s1.callers[c].pc = "idle"}
  IN IF s.calls[sink] # <<>> \/ script = "none" THEN s1
     ELSE IF script = "throw" THEN [s1 EXCEPT !.exc = TRUE]
     ELSE IF script = "rejoin"
       THEN IF idle = {} THEN s1 ELSE getOrCreateFlight(s1, Min(idle), key)
     ELSE completeFlight(s1, key, NULL, ReentrantValue,
                         <<"handle", s.callers[sink].rec>>)

\* a forEach that goes through the waiters from the last to the first
forEachBackwards(s, id, i, len, error, result, src) ==
  IF i > len THEN s
  ELSE LET callback == s.recs[id].waiters[len + 1 - i]
           s1 == IF Truthy(error)
                   THEN invoke(s, callback, error, NULL, id, src)
                   ELSE invoke(s, callback, NULL, result, id, src)
       IN forEach(s1, id, i + 1, len, error, result, src)

\* waiters.forEach: the length is read once, the elements as it goes; what
\* a callback throws is caught and logged
forEach(s, id, i, len, error, result, src) ==
  IF i > len THEN s
  ELSE LET callback == s.recs[id].waiters[i]
           s1 == IF Truthy(error)
                   THEN invoke(s, callback, error, NULL, id, src)
                   ELSE invoke(s, callback, NULL, result, id, src)
       IN forEach([s1 EXCEPT !.exc = FALSE], id, i + 1, len, error, result,
                  src)

\* completeFlight(key, error, result)
completeFlight(s, key, error, result, src) ==
  LET id == s.flights[key]
  IN IF id = NoRec THEN CloseWindow(s, {key})
     ELSE LET s1 == [s EXCEPT !.timers = @ \ {id},
                              !.recs[id].error = error,
                              !.recs[id].result = result,
                              !.recs[id].completed = TRUE]
              s2 == forEach(s1, id, 1, Len(s1.recs[id].waiters),
                            error, result, src)
          IN CloseWindow([s2 EXCEPT !.flights[key] = NoRec], {key})

\* an abortFlight that leaves the record as it is
abortFlightIgnored(s, key, error, src) == s

\* abortFlight(key, error)
abortFlight(s, key, error, src) ==
  LET id == s.flights[key]
  IN IF id # NoRec /\ ~s.recs[id].completed
       THEN completeFlight(s, key, error, NULL, src)
       ELSE s

\* a clear() that only disarms the timers and leaves the mapping as it is
clearTimersOnly(s) ==
  [s EXCEPT !.timers = @ \ {s.flights[k] : k \in Keys},
            !.cleared = @ \cup ({s.flights[k] : k \in Keys} \ {NoRec})]

\* clear()
clear(s) ==
  [s EXCEPT !.timers = @ \ {s.flights[k] : k \in Keys},
            !.flights = [k \in Keys |-> NoRec],
            !.cleared = @ \cup ({s.flights[k] : k \in Keys} \ {NoRec})]

\* handle.addWaiter(callback) of the handle caller c holds, with c's sink
addWaiter(s, c) ==
  LET id == s.callers[c].rec
      fd == s.recs[id]
      push == [s EXCEPT !.recs[id].waiters = Append(@, c)]
  IN IF s.callers[c].isNew
       THEN IF fd.completed
              THEN IF Truthy(fd.error)
                     THEN invoke(s, c, fd.error, NULL, id, <<"stored", id>>)
                     ELSE invoke(s, c, NULL, fd.result, id, <<"stored", id>>)
              ELSE push
       ELSE IF Truthy(fd.error)
              THEN invoke(s, c, fd.error, NULL, id, <<"stored", id>>)
              ELSE push

\* ---------------------------------------------------------------- actions

\* callers are interchangeable, and so are the urls: both are taken in order
GetOrCreateFlight(c, method, i) ==
  /\ callers[c].pc = "idle"
  /\ \A d \in Callers : d < c => callers[d].pc # "idle"
  /\ i > 1 => \E d \in Callers :
                 callers[d].key = createFlightKey(method, UrlSeq[i - 1])
  /\ Commit(getOrCreateFlight(Cur(NoScripts), c,
                              createFlightKey(method, UrlSeq[i])))

AddWaiter(c, scripts) ==
  /\ callers[c].pc = "got"
  /\ Commit(addWaiter([Cur(scripts) EXCEPT !.callers[c].pc = "joined"], c))

Report(c, error, result, scripts) ==
  /\ callers[c].pc \in {"got", "joined"}
  /\ callers[c].isNew
  /\ callers[c].reports < MaxReports
  /\ LET key == callers[c].key
         s0 == [Cur(scripts) EXCEPT !.callers[c].reports = @ + 1]
         s1 == completeFlight(s0, key, error, result,
                              <<"handle", callers[c].rec>>)
     IN Commit(s1)

SetResult(c, v, scripts) == Report(c, NULL, v, scripts)

SetError(c, e, scripts) == Report(c, e, NULL, scripts)

\* the setTimeout callback of record id runs
TimerFire(id, scripts) ==
  /\ id \in timers
  /\ LET key == recs[id].key
         s0 == [Cur(scripts) EXCEPT !.timers = @ \ {id}]
         s1 == abortFlight(s0, key, TimeoutError, <<"timer", id>>)
     IN Commit(CloseWindow(s1, {key}))

Clear == Commit(CloseWindow(clear(Cur(NoScripts)), Keys))

Next ==
  \/ \E c \in Callers, m \in Methods, i \in 1..Len(UrlSeq) :
       GetOrCreateFlight(c, m, i)
  \/ \E c \in Callers :
       \E sc \in ScriptsFor(({c} \cup FirstTime(callers[c].key))
                              \cap {d \in Callers : calls[d] = <<>>}) :
         AddWaiter(c, sc)
  \/ \E c \in Callers, v \in Values :
       \E sc \in ScriptsFor(FirstTime(callers[c].key)) : SetResult(c, v, sc)
  \/ \E c \in Callers, e \in ErrorValues :
       \E sc \in ScriptsFor(FirstTime(callers[c].key)) : SetError(c, e, sc)
  \/ \E id \in timers :
       \E sc \in ScriptsFor(FirstTime(recs[id].key)) : TimerFire(id, sc)
  \/ Clear

Spec == Init /\ [][Next]_vars

\* the tracker with sinks that may throw
ThrowNext ==
  \/ \E c \in Callers, m \in Methods, i \in 1..Len(UrlSeq) :
       GetOrCreateFlight(c, m, i)
  \/ \E c \in Callers :
       \E sc \in ThrowScriptsFor(({c} \cup FirstTime(callers[c].key))
                                   \cap {d \in Callers : calls[d] = <<>>}) :
         AddWaiter(c, sc)
  \/ \E c \in Callers, v \in Values :
       \E sc \in ThrowScriptsFor(FirstTime(callers[c].key)) :
         SetResult(c, v, sc)
  \/ \E c \in Callers, e \in ErrorValues :
       \E sc \in ThrowScriptsFor(FirstTime(callers[c].key)) :
         SetError(c, e, sc)
  \/ \E id \in timers :
       \E sc \in ThrowScriptsFor(FirstTime(recs[id].key)) : TimerFire(id, sc)
  \/ Clear

ThrowSpec == Init /\ [][ThrowNext]_vars

\* ------------------------------------------------------------ vocabulary

\* the sinks queued on record r
Waiters(r) == {recs[r].waiters[i] : i \in 1..Len(recs[r].waiters)}

RecIds == 1..Len(recs)

\* the caller getOrCreateFlight answered isNew = true with record r
Originator(r) == CHOOSE c \in Callers : callers[c].isNew /\ callers[c].rec = r

\* the operation of an originator runs from its Originate decision until it
\* reports (Hogo.handleRequest awaits the handler, then calls setResult or
\* setError)
Running(c) ==
  callers[c].pc # "idle" /\ callers[c].isNew /\ callers[c].reports = 0

\* record r is out of the mapping
Left(r) == flights[recs[r].key] # r

\* this step is caller c's setResult(v), its setError(e), the timer of id
IsSetResult(c, v) ==
  \E sc \in ScriptsFor(FirstTime(callers[c].key)) : SetResult(c, v, sc)

IsSetError(c, e) ==
  \E sc \in ScriptsFor(FirstTime(callers[c].key)) : SetError(c, e, sc)

IsTimerFire(id) ==
  \E sc \in ScriptsFor(FirstTime(recs[id].key)) : TimerFire(id, sc)

\* the invocations of sink w this step adds
NewCalls(w) == SubSeq(calls'[w], Len(calls[w]) + 1, Len(calls'[w]))

\* ------------------------------------------------------------------ claims

\* C1: among the getOrCreateFlight calls made for one key with no completion,
\* timeout or clear of that key in between, exactly one is answered
\* isNew = true (Originate) and all the others isNew = false (Wait).
C1_OneOriginatePerWindow ==
  \A k \in Keys : win[k].calls >= 1 => win[k].origs = 1

\* three calls for one key in one window: one Originate, two Wait
C1_Witness ==
  \E k \in Keys :
    /\ win[k].calls = 3 /\ win[k].origs = 1
    /\ Cardinality({c \in Callers : callers[c].key = k /\ callers[c].isNew}) = 1
    /\ Cardinality({c \in Callers : callers[c].key = k /\ callers[c].pc # "idle"
                                    /\ ~callers[c].isNew}) = 2

\* C2: (no clear() having removed a record) every sink has been invoked at
\* most once, never with both an error and a result, and every sink queued
\* on a record that has left the mapping has been invoked exactly once.
C2_EverySinkExactlyOnce ==
  cleared = {} =>
    \A w \in Callers :
      /\ Len(calls[w]) <= 1
      /\ \A i \in 1..Len(calls[w]) :
           ~(calls[w][i].err # NULL /\ calls[w][i].res # NULL)
      /\ \A r \in RecIds : w \in Waiters(r) /\ Left(r) => Len(calls[w]) = 1

\* C3: when the originator of a pending record calls setResult(v), each sink
\* queued on the record is invoked exactly once, with (null, v), and the
\* mapping then holds no record for the key.
C3_SetResultReachesEveryWaiter ==
  [][\A c \in Callers, v \in Values :
       IsSetResult(c, v) /\ ~recs[callers[c].rec].completed =>
         /\ \A w \in Waiters(callers[c].rec) :
              /\ Len(NewCalls(w)) = 1
              /\ NewCalls(w)[1].err = NULL
              /\ NewCalls(w)[1].res = v
         /\ flights'[callers[c].key] = NoRec]_vars

\* C4: when the originator calls setError(e), every sink queued on its record
\* is invoked with exactly the error e, and no sink is invoked through the
\* success branch, whatever e is.
C4_SetErrorForwardsTheError ==
  [][\A c \in Callers, e \in ErrorValues :
       SetError(c, e, NoScripts) =>
         \A w \in Callers : \A i \in 1..Len(NewCalls(w)) :
           NewCalls(w)[i].err = e /\ NewCalls(w)[i].res = NULL]_vars

\* C5: when the timer of a record fires and the record's originator has
\* called neither setResult nor setError, every sink queued on the record at
\* that time is invoked with the timeout error and the record is out of the
\* mapping afterwards.
C5_TimeoutReachesEverySink ==
  [][\A id \in timers :
       IsTimerFire(id) /\ callers[Originator(id)].reports = 0 =>
         /\ \A w \in Waiters(id) :
              \E i \in 1..Len(NewCalls(w)) :
                NewCalls(w)[i].err = TimeoutError /\ NewCalls(w)[i].rec = id
         /\ flights'[recs[id].key] # id]_vars

\* C6: setResult or setError on a handle whose record has already completed
\* changes nothing: not the mapping, no record, no timer, and no sink is
\* invoked.
C6_LateReportIsNoOp ==
  [][\A c \in Callers :
       /\ \/ \E v \in Values : IsSetResult(c, v)
          \/ \E e \in ErrorValues : IsSetError(c, e)
       /\ recs[callers[c].rec].completed
       => UNCHANGED <<flights, recs, timers, calls>>]_vars

\* C7: every outcome a sink receives for a record was reported through that
\* record's own handle or produced by that record's own timer.
C7_OutcomeFromOwnExecution ==
  \A w \in Callers : \A i \in 1..Len(calls[w]) :
    calls[w][i].src[2] = calls[w][i].rec

\* C8: no sink is notified twice through one handle: a second setResult or
\* setError on a handle delivers no second notification.
C8_NoSecondNotification ==
  \A w \in Callers : \A i, j \in 1..Len(calls[w]) :
    i # j => ~(calls[w][i].src[1] = "handle" /\ calls[w][i].src = calls[w][j].src)

\* C9 as claimed: no two callers that received Originate for one key have
\* their operations running at once.
C9_AtMostOneRunning ==
  \A c, d \in Callers :
    c # d /\ Running(c) /\ Running(d) => callers[c].key # callers[d].key

\* C9 as amended: a caller receives Originate for a key only when the mapping
\* holds no pending record for the key: none, or one that is completed by
\* the time of the call (a call made from a sink during the fan-out).
C9_OriginateOnlyWithoutPending ==
  [][\A c \in Callers :
       callers[c].pc = "idle" /\ callers'[c].pc # "idle" /\ callers'[c].isNew =>
         LET existing == flights[callers'[c].key]
         IN existing = NoRec \/ recs'[existing].completed]_vars

\* two originators of one key both running, the record of the first timed out
C9_Witness ==
  \E c, d \in Callers :
    /\ c # d /\ Running(c) /\ Running(d)
    /\ callers[c].key = callers[d].key
    /\ recs[callers[c].rec].completed
    /\ recs[callers[c].rec].error = TimeoutError
    /\ flights[callers[d].key] = callers[d].rec

\* C10: a getOrCreateFlight call made for a key after a record of that key
\* has completed, the mapping holding no pending record for the key, returns
\* isNew = true with a brand-new record (no waiters, result and error null,
\* not completed); and isNew = false is only ever returned against a record
\* that is pending.
C10_NewAttemptAfterCompletion ==
  \A c \in Callers :
    callers[c].pc # "idle" =>
      /\ callers[c].prior /\ callers[c].found # "pending" =>
           callers[c].isNew /\ callers[c].fresh
      /\ ~callers[c].isNew => callers[c].found = "pending"

\* a new attempt started after the earlier record of the key ended in error
C10_Witness ==
  \E c \in Callers : \E r \in RecIds :
    /\ callers[c].prior /\ callers[c].isNew /\ callers[c].fresh
    /\ r < callers[c].rec /\ recs[r].key = callers[c].key
    /\ recs[r].completed /\ recs[r].error = "boom"

\* the sinks queued on record r that no invocation has been made to for r
Unnotified(r) ==
  {w \in Waiters(r) : \A i \in 1..Len(calls[w]) : calls[w][i].rec # r}

\* record r is in flight: pending, with its timer armed or sinks waiting
InFlight(r) ==
  ~recs[r].completed /\ (r \in timers \/ Unnotified(r) # {})

\* C11: no two records created for one key are in flight at once, that is
\* pending while holding an armed timer or un-notified waiters (records that
\* clear() discarded are set aside).
C11_OneInFlightPerKey ==
  \A r, q \in RecIds \ cleared :
    r # q /\ recs[r].key = recs[q].key => ~(InFlight(r) /\ InFlight(q))

\* C12: no getOrCreateFlight call, made from inside a sink during a fan-out
\* or not, finds a completed record in the mapping under its key.
C12_NeverFindsCompleted ==
  \A c \in Callers :
    callers[c].pc # "idle" => callers[c].found # "completed"

\* the event loop runs the callback of every timer that stays armed
FairSpec ==
  Spec /\ WF_vars(\E id \in timers :
                    \E sc \in ScriptsFor(FirstTime(recs[id].key)) :
                      TimerFire(id, sc))

\* the mapping holds no record
Empty == \A k \in Keys : flights[k] = NoRec

\* C13: when every record that stays in the mapping is completed by its
\* originator or has its timer fire, the mapping is, from some point on
\* (the last request having arrived), empty for good.
C13_MappingDrains == <>[]Empty

\* every caller has arrived, records of two keys have ended, one by its
\* originator and one by its timer, and the mapping is empty
C13_Witness ==
  /\ Empty
  /\ \A c \in Callers : callers[c].pc # "idle"
  /\ \E r, q \in RecIds :
       /\ recs[r].key # recs[q].key
       /\ recs[r].completed /\ recs[r].result \in Values
       /\ recs[q].completed /\ recs[q].error = TimeoutError

\* C14: the armed timers are exactly the timers of the records in the
\* mapping; none stays armed for a record that completed or left the mapping.
C14_TimersAreThoseOfTheMapping ==
  timers = {flights[k] : k \in Keys} \ {NoRec}

\* C15: an addWaiter made through either kind of handle after the record
\* has completed, in success or in error, invokes the sink at once with the
\* outcome the record stores and leaves the waiters list as it was.
C15_NoQueueingAfterCompletion ==
  [][\A c \in Callers :
       callers[c].pc = "got" /\ callers'[c].pc = "joined" /\
       recs[callers[c].rec].completed =>
         LET id == callers[c].rec
         IN /\ recs'[id].waiters = recs[id].waiters
            /\ NewCalls(c) # <<>>
            /\ NewCalls(c)[1].rec = id
            /\ \/ NewCalls(c)[1].err = recs[id].error /\ NewCalls(c)[1].res = NULL
               \/ NewCalls(c)[1].err = NULL /\ NewCalls(c)[1].res = recs[id].result
     ]_vars

\* C19: after clear() the mapping is empty and no timer is armed, so no
\* timer callback created before the call runs after it.
C19_ClearDisarmsEveryTimer ==
  [][Clear => Empty' /\ timers' = {}]_vars

\* a log of invocations without the note of what caused each
Outcomes(log) ==
  [i \in 1..Len(log) |->
     [err |-> log[i].err, res |-> log[i].res, rec |-> log[i].rec]]

\* C20: when the timer of the pending record of a key fires, the mapping,
\* the records, the timers and the sequence of invocations of every sink
\* come out as they would had the originator called setError with the
\* timeout error in that state.
C20_TimeoutIsSetError ==
  [][\A id \in timers :
       \A sc \in ScriptsFor(FirstTime(recs[id].key)) :
         TimerFire(id, sc) /\ flights[recs[id].key] = id /\
         ~recs[id].completed =>
           LET s == completeFlight(Cur(sc), recs[id].key, TimeoutError, NULL,
                                   <<"handle", id>>)
           IN /\ flights' = s.flights
              /\ recs' = s.recs
              /\ timers' = s.timers
              /\ \A w \in Callers : Outcomes(calls'[w]) = Outcomes(s.calls[w])
              /\ \A c \in Callers \ {Originator(id)} :
                   callers'[c] = s.callers[c]]_vars

\* the timer of a record with two sinks queued has fired and both were told
C20_Witness ==
  \E r \in RecIds :
    /\ recs[r].completed /\ recs[r].error = TimeoutError
    /\ Len(recs[r].waiters) = 2
    /\ \A w \in Waiters(r) :
         \E i \in 1..Len(calls[w]) : calls[w][i].src = <<"timer", r>>

\* ----------------------------------------------------- Hogo.handleRequest

tvars == <<flights, recs, timers, calls, callers, win, cleared, thrown>>

\* the context object an originator passes to setResult is named after its
\* request; it holds what getResponseContext returned, which no later call
\* on the ship changes (the ship has sent its headers by then)
Digit == <<"1", "2", "3", "4", "5", "6", "7", "8", "9">>
ContextName(c) == "context" \o Digit[c]
ContextOwner(name) == CHOOSE c \in Callers : ContextName(c) = name

\* the sink of a coalesced request: the error as a 500, or the replay of the
\* originator's context; destructuring a null update throws, and so does a
\* second writeHead
WaiterSink(reqs, q, err, update) ==
  IF Truthy(err) THEN ship_error(q, err, 500)
  ELSE IF update = NULL THEN q
  ELSE LET context == getResponseContext(reqs[ContextOwner(update)])
           data == context.data
           payload == IF typeof(data) = "object" THEN JSONstringify(data)
                      ELSE String(data)
           ctype == IF context.contentType = NULL
                      THEN "application/json; charset=utf-8"
                      ELSE context.contentType
       IN IF CanWrite(q) THEN Write(q, context.statusCode, ctype, payload)
          ELSE Refused(q)

\* the sink the originating request registers
OriginatorSink(q, err) ==
  IF Truthy(err) /\ ~q.headersSent THEN ship_error(q, err, 500) ELSE q

RECURSIVE Deliver(_, _, _, _, _)
\* the invocations log[i..] applied in turn to the request holding the sink
Deliver(q, reqs, isNew, log, i) ==
  IF i > Len(log) THEN q
  ELSE Deliver(IF isNew THEN OriginatorSink(q, log[i].err)
               ELSE WaiterSink(reqs, q, log[i].err, log[i].res),
               reqs, isNew, log, i + 1)

\* the requests after the sinks have run that the tracker call leading to s
\* invoked
AfterCalls(reqs, s) ==
  [w \in Callers |->
     Deliver(reqs[w], reqs, s.callers[w].isNew,
             SubSeq(s.calls[w], Len(calls[w]) + 1, Len(s.calls[w])), 1)]

\* Hogo.defaultErrorHandler(ship, error); an Error is known by its message,
\* and a thrown "" has none
defaultErrorHandler(q, err) ==
  IF ~q.headersSent
    THEN ship_error(q, IF Truthy(err) THEN err ELSE "Internal Server Error",
                    500)
    ELSE q

\* this.errorHandler(ship, error), with the note that it was invoked
errorHandler(q, err) ==
  [defaultErrorHandler(q, err) EXCEPT !.handled = Append(@, err)]

\* what a handler may throw: an Error, known by its message, or ""
ThrownValues == {"boom", ""}

\* the handler hd runs its ship calls on the ship of q
Send(q, hd) ==
  LET q1 == IF hd.code = 200 THEN q ELSE status(q, hd.code)
  IN CASE hd.m = "deliver" -> deliver(q1, hd.data)
       [] hd.m = "json" -> json(q1, hd.data)
       [] hd.m = "text" -> text(q1, hd.data)
       [] hd.m = "html" -> html(q1, hd.data)
       [] OTHER -> ship_error(q1, hd.data.v, 500)

\* the routes bound: one handler, on GET /a
Routes == <<[method |-> "GET", pattern |-> "/a"]>>

\* Route.match(method, url): the pattern has no parameter, so its regex
\* matches the path equal to it
match(route, method, url) ==
  method = route.method /\ PathOf(url) = route.pattern

\* Router.findRoute(method, url): the first route that matches (0: none)
findRoute(method, url) ==
  LET I == {r \in 1..Len(Routes) : match(Routes[r], method, url)}
  IN IF I = {} THEN 0 ELSE Min(I)

\* a Hogo that takes the coalescing branch whatever its option says
coalescingAlways(h) == TRUE

\* if (this.coalescingEnabled): the branch that uses the tracker
coalescing(h) == h.coalescingEnabled

\* handleRequest up to its first await: the request is counted, the route is
\* found, the flight is joined or started and the request's sink registered
HandleRequest(c, method, i) ==
  /\ hogo.reqs[c].h = "none"
  /\ \A d \in Callers : d < c => hogo.reqs[d].h # "none"
  /\ LET req == [hogo.reqs[c] EXCEPT !.method = method,
                                     !.url = RequestUrls[i]]
     IN IF findRoute(req.method, req.url) = 0
          THEN /\ hogo' = [hogo EXCEPT !.stats.totalRequests = @ + 1,
                                        !.reqs[c] =
                             [ship_error(req, "Not Found", 404)
                                EXCEPT !.h = "not found"]]
               /\ UNCHANGED tvars
        ELSE IF coalescing(hogo)
          THEN /\ i > 1 => \E d \in Callers :
                             callers[d].key =
                               createFlightKey(method, UrlSeq[i - 1])
               /\ LET key == createFlightKey(req.method, req.url)
                      s1 == getOrCreateFlight(Cur(NoScripts), c, key)
                      s2 == addWaiter([s1 EXCEPT !.callers[c].pc = "joined"],
                                      c)
                  IN /\ Store(s2)
                     /\ hogo' = [hogo EXCEPT
                                   !.stats.totalRequests = @ + 1,
                                   !.stats.coalescedRequests =
                                      IF s2.callers[c].isNew THEN @ ELSE @ + 1,
                                   !.reqs[c] =
                                   [req EXCEPT !.h =
                                      IF s2.callers[c].isNew THEN "running"
                                      ELSE "waiting"]]
          ELSE /\ i = 1
               /\ hogo' = [hogo EXCEPT !.stats.totalRequests = @ + 1,
                                        !.reqs[c] = [req EXCEPT !.h = "running"]]
               /\ UNCHANGED tvars

\* the handler of request c calls a method of its ship
HandlerSends(c) ==
  /\ hogo.reqs[c].h = "running"
  /\ hogo' = [hogo EXCEPT !.reqs[c] =
                [Send(@, hogo.handler) EXCEPT !.h = "responded"]]
  /\ UNCHANGED tvars

\* the handler of request c returns (nothing but what its ship holds)
HandlerReturns(c) ==
  /\ hogo.reqs[c].h \in {"running", "responded"}
  /\ LET context == getResponseContext(hogo.reqs[c])
     IN IF coalescing(hogo) /\ context.data # JsNull
          THEN LET s0 == [Cur(NoScripts) EXCEPT !.callers[c].reports = @ + 1]
                   s1 == completeFlight(s0, callers[c].key, NULL,
                                        ContextName(c),
                                        <<"handle", callers[c].rec>>)
               IN /\ Store(s1)
                  /\ hogo' = [hogo EXCEPT
                                !.reqs = [AfterCalls(@, s1) EXCEPT
                                            ![c].h = "returned"]]
          ELSE /\ hogo' = [hogo EXCEPT !.reqs[c].h = "returned"]
               /\ UNCHANGED tvars

\* where a handler that throws ends: having sent nothing, or after its send
Threw(h) == IF h = "running" THEN "threw" ELSE "threw late"

\* the handler of request c throws e
HandlerThrows(c, e) ==
  /\ hogo.reqs[c].h \in {"running", "responded"}
  /\ IF coalescing(hogo)
       THEN LET s0 == [Cur(NoScripts) EXCEPT !.callers[c].reports = @ + 1]
                s1 == completeFlight(s0, callers[c].key, e, NULL,
                                     <<"handle", callers[c].rec>>)
                reqs1 == AfterCalls(hogo.reqs, s1)
                q == [reqs1[c] EXCEPT !.h = Threw(@), !.thrown = e]
            IN /\ Store(s1)
               /\ hogo' = [hogo EXCEPT
                             !.stats.errors = @ + 1,
                             !.reqs = [reqs1 EXCEPT ![c] =
                                         IF ~q.headersSent
                                           THEN errorHandler(q, e) ELSE q]]
       ELSE /\ hogo' = [hogo EXCEPT
                          !.stats.errors = @ + 1,
                          !.reqs[c] =
                          errorHandler([@ EXCEPT !.h = Threw(@),
                                                 !.thrown = e], e)]
            /\ UNCHANGED tvars

\* the timer of record id fires while Hogo serves
FlightTimeout(id) ==
  /\ id \in timers
  /\ LET key == recs[id].key
         s0 == [Cur(NoScripts) EXCEPT !.timers = @ \ {id}]
         s1 == CloseWindow(abortFlight(s0, key, TimeoutError, <<"timer", id>>),
                           {key})
     IN /\ Store(s1)
        /\ hogo' = [hogo EXCEPT !.reqs = AfterCalls(@, s1)]

HogoInit ==
  /\ TrackerInit
  /\ hogo \in {NewHogo(b, hd) : b \in BOOLEAN, hd \in Handlers}

HogoNext ==
  \/ \E c \in Callers, m \in Methods, i \in 1..Len(RequestUrls) :
       HandleRequest(c, m, i)
  \/ \E c \in Callers : HandlerSends(c)
  \/ \E c \in Callers : HandlerReturns(c)
  \/ \E c \in Callers, e \in ThrownValues : HandlerThrows(c, e)
  \/ \E id \in timers : FlightTimeout(id)

HogoSpec == HogoInit /\ [][HogoNext]_vars

\* C16: the response a coalesced request's client receives as the replay of
\* an originator's outcome has the status code, the content type and the
\* payload of the response that originator's client received.
C16_SameResponseForAll ==
  \A w \in Callers :
    hogo.reqs[w].h = "waiting" /\ hogo.reqs[w].out # <<>> /\
    calls[w][1].res # NULL =>
      hogo.reqs[w].out[1] = hogo.reqs[ContextOwner(calls[w][1].res)].out[1]

\* C17: when the handler of a request throws (having sent nothing), the
\* error handler of the Hogo instance is invoked for that request with the
\* error thrown, coalescing enabled or not.
C17_ErrorHandlerInvoked ==
  \A c \in Callers :
    hogo.reqs[c].h = "threw" =>
      hogo.reqs[c].handled = <<hogo.reqs[c].thrown>>

\* this step is the handler of request c throwing, having sent nothing
IsThrow(c) ==
  hogo.reqs[c].h = "running" /\ \E e \in ThrownValues : HandlerThrows(c, e)

\* C18: when the pending record of a key ends because its originator's
\* handler throws or because its timer fires, every request with a sink on
\* the record that has had no response yet (the originator's and each
\* coalesced one) receives exactly one response, with status 500.
C18_FailureReachesEveryRequest ==
  [][\A r \in RecIds :
       flights[recs[r].key] = r /\ ~recs[r].completed /\
       (IsThrow(Originator(r)) \/ FlightTimeout(r)) =>
         \A w \in Waiters(r) :
           hogo.reqs[w].out = <<>> =>
             /\ Len(hogo'.reqs[w].out) = 1
             /\ hogo'.reqs[w].out[1].status = 500]_vars

\* C21: a record goes from pending to completed once and never back; its
\* result and error are null while it is pending, are written once, at that
\* transition, and are never both non-null: a completed record keeps its
\* outcome, and what a sink was told for a record is what the record stores.
C21_OutcomeWrittenOnce ==
  [][\A r \in RecIds :
       /\ recs[r].completed =>
            /\ recs'[r].completed
            /\ recs'[r].result = recs[r].result
            /\ recs'[r].error = recs[r].error
       /\ ~recs[r].completed => recs[r].result = NULL /\ recs[r].error = NULL
       /\ ~(recs'[r].result # NULL /\ recs'[r].error # NULL)
       /\ \A w \in Callers : \A i \in 1..Len(calls'[w]) :
            calls'[w][i].rec = r =>
              IF Truthy(recs'[r].error)
                THEN calls'[w][i].err = recs'[r].error
                ELSE calls'[w][i].res = recs'[r].result]_vars

\* when sink w was first invoked for record r (0: never)
FirstAt(w, r) ==
  LET I == {i \in 1..Len(calls[w]) : calls[w][i].rec = r}
  IN IF I = {} THEN 0 ELSE calls[w][Min(I)].at

\* C22: the sinks queued on a record are invoked in the order of their
\* registration: of two sinks on one record, the later one is not invoked
\* for it unless the earlier one has been, before.
C22_RegistrationOrder ==
  \A r \in RecIds : \A i, j \in 1..Len(recs[r].waiters) :
    i < j /\ FirstAt(recs[r].waiters[j], r) # 0 =>
      /\ FirstAt(recs[r].waiters[i], r) # 0
      /\ FirstAt(recs[r].waiters[i], r) < FirstAt(recs[r].waiters[j], r)

\* three sinks queued on one record have all been invoked for it
C22_Witness ==
  \E r \in RecIds :
    /\ Len(recs[r].waiters) = 3
    /\ \A w \in Waiters(r) : FirstAt(w, r) # 0


\* ------------------------------------------------------------------ C23

\* how many keys the mapping holds
MapSize == Cardinality({k \in Keys : flights[k] # NoRec})

\* caller c's handle.addWaiter call is the step taken
IsAddWaiter(c) ==
  \E scripts \in ScriptsFor(({c} \cup FirstTime(callers[c].key))
                              \cap {d \in Callers : calls[d] = <<>>}) :
    AddWaiter(c, scripts)

\* C23: a getOrCreateFlight call changes the size of the mapping by at most
\* one entry and arms a timer only when it returns isNew = true, the timer of
\* the record it returns, leaving every other record as it was; when it
\* returns isNew = false the mapping, the timers, the records and the sinks'
\* logs are unchanged, and the addWaiter that follows on the still pending
\* record appends exactly the caller's sink to that record and changes
\* nothing else
C23_FrameOfGetOrCreate ==
  [][/\ \A c \in Callers : \A method \in Methods : \A i \in 1..Len(UrlSeq) :
          GetOrCreateFlight(c, method, i) =>
            /\ MapSize' >= MapSize /\ MapSize' <= MapSize + 1
            /\ calls' = calls
            /\ callers'[c].isNew =>
                 /\ callers'[c].rec \notin timers
                 /\ timers' = timers \cup {callers'[c].rec}
                 /\ SubSeq(recs', 1, Len(recs)) = recs
                 /\ Len(recs') = Len(recs) + 1
                 /\ \A k \in Keys :
                      k # callers'[c].key => flights'[k] = flights[k]
            /\ ~callers'[c].isNew =>
                 flights' = flights /\ timers' = timers /\ recs' = recs
     /\ \A c \in Callers :
          (IsAddWaiter(c) /\ ~callers[c].isNew
             /\ ~recs[callers[c].rec].completed) =>
            /\ recs' = [recs EXCEPT ![callers[c].rec].waiters = Append(@, c)]
            /\ flights' = flights /\ timers' = timers /\ calls' = calls]_vars

\* a caller that was handed a pending record has queued its sink on it,
\* next to a flight of another key
C23_Witness ==
  /\ MapSize = 2
  /\ \E c \in Callers :
       /\ callers[c].pc = "joined" /\ ~callers[c].isNew
       /\ ~recs[callers[c].rec].completed
       /\ c \in Waiters(callers[c].rec)


\* ------------------------------------------------------------------ C24

\* this step is a call made for key k: getOrCreateFlight, addWaiter,
\* setResult and setError through a handle of k, or the timer of a record of k
StepOfKey(k) ==
  \/ \E c \in Callers, method \in Methods, i \in 1..Len(UrlSeq) :
       k = createFlightKey(method, UrlSeq[i]) /\ GetOrCreateFlight(c, method, i)
  \/ \E c \in Callers : callers[c].key = k /\ IsAddWaiter(c)
  \/ \E c \in Callers, v \in Values : callers[c].key = k /\ IsSetResult(c, v)
  \/ \E c \in Callers, e \in ErrorValues :
       callers[c].key = k /\ IsSetError(c, e)
  \/ \E id \in timers : recs[id].key = k /\ IsTimerFire(id)

\* what sink w was told on behalf of the records of key k, before and after
\* the step
ToldOf(w, k) ==
  LET OfKey(e) == recs[e.rec].key = k IN SelectSeq(calls[w], OfKey)

ToldOfNext(w, k) ==
  LET OfKey(e) == recs'[e.rec].key = k IN SelectSeq(calls'[w], OfKey)

\* the step leaves key k alone: its mapping entry, its records with their
\* waiters and outcome, their timers, and what its sinks have received
KeyUntouched(k) ==
  /\ flights'[k] = flights[k]
  /\ \A r \in 1..Len(recs') :
       recs'[r].key = k =>
         /\ r \in RecIds
         /\ recs'[r] = recs[r]
         /\ (r \in timers') = (r \in timers)
  /\ \A w \in Callers : ToldOfNext(w, k) = ToldOf(w, k)

\* C24: distinct keys are independent: a getOrCreateFlight, addWaiter,
\* setResult, setError or timer firing for key k1 leaves the mapping entry,
\* the records, the waiters, the timers and the delivered outcomes of every
\* other key k2 unchanged
C24_KeysAreIndependent ==
  [][\A k1 \in Keys : StepOfKey(k1) =>
       \A k2 \in Keys \ {k1} : KeyUntouched(k2)]_vars

\* a waiter of one key was told of the timeout, and after that a waiter of
\* another key received the result its own originator reported
C24_Witness ==
  \E r1, r2 \in RecIds : \E w1, w2 \in Callers :
    /\ recs[r1].key # recs[r2].key
    /\ calls[w1] # <<>> /\ calls[w2] # <<>>
    /\ calls[w1][1].rec = r1 /\ calls[w1][1].err = TimeoutError
    /\ calls[w2][1].rec = r2 /\ calls[w2][1].res \in Values
    /\ calls[w2][1].src = <<"handle", r2>>
    /\ calls[w1][1].at < calls[w2][1].at


\* ------------------------------------------------------------------ C25

\* C25: getStats() returns a consistent snapshot of the mapping at the moment
\* of the call: totalInFlight is the number of entries of flights, every
\* record of the mapping is listed exactly once, with its own key and the
\* number of sinks queued on it, and no completed or removed record is
\* listed, whether the call is made between two tracker calls or by a sink
\* during its callback
C25_StatsAreASnapshot ==
  LET st == getStats(Cur(NoScripts))
  IN /\ st.totalInFlight = MapSize
     /\ Len(st.flights) = MapSize
     /\ \A k \in Keys :
          flights[k] # NoRec =>
            /\ Cardinality({j \in 1..Len(st.flights) :
                              st.flights[j].rec = flights[k]}) = 1
            /\ \A j \in 1..Len(st.flights) :
                 st.flights[j].rec = flights[k] =>
                   /\ st.flights[j].key = k
                   /\ st.flights[j].waiters = Len(recs[flights[k]].waiters)
     /\ \A j \in 1..Len(st.flights) :
          /\ ~recs[st.flights[j].rec].completed
          /\ flights[st.flights[j].key] = st.flights[j].rec
     /\ \A w \in Callers : \A i \in 1..Len(calls[w]) :
          calls[w][i].stats = <<>>


\* ------------------------------------------------------------------ C26

\* Hogo serving requests, each armed flight timer firing in the end
FairHogoSpec ==
  HogoSpec /\ \A id \in 1..MaxCallers : WF_vars(FlightTimeout(id))

\* C26: no request hangs: every request that matches a route receives a
\* response in the end, whatever its handler does (it sends, returns, throws
\* or never settles) and whether it is the originator or a coalesced waiter,
\* each armed flight timer firing in the end (flights and their timers exist
\* with coalescing enabled)
C26_EveryRequestAnswered ==
  \A c \in Callers :
    (hogo.coalescingEnabled /\ hogo.reqs[c].h # "none")
      ~> (hogo.reqs[c].out # <<>>)


\* ------------------------------------------------------------------ C27

\* request c has been taken up by handleRequest
Served(c) == hogo.reqs[c].h # "none"

\* C27: two requests are coalesced only if their method and their full url,
\* query string included, are equal: requests whose urls differ in the query
\* string only match the same route but never share a flight, and a request
\* waits for another's outcome only if that one, of the same method and url,
\* runs the handler; every other request runs the handler itself
C27_CoalescedOnlyOnSameUrl ==
  /\ \A m1, m2 \in Methods \cup {"POST"} : \A u1, u2 \in Urls :
       createFlightKey(m1, u1) = createFlightKey(m2, u2) => m1 = m2 /\ u1 = u2
  /\ \A c \in Callers :
       Served(c) =>
         /\ \A d \in Callers :
              (Served(d) /\ hogo.reqs[d].method = hogo.reqs[c].method
                 /\ PathOf(hogo.reqs[d].url) = PathOf(hogo.reqs[c].url)) =>
                findRoute(hogo.reqs[d].method, hogo.reqs[d].url) =
                findRoute(hogo.reqs[c].method, hogo.reqs[c].url)
         /\ \A d \in Callers :
              (Served(d) /\ hogo.coalescingEnabled
                 /\ callers[c].rec = callers[d].rec) =>
                /\ hogo.reqs[c].method = hogo.reqs[d].method
                /\ hogo.reqs[c].url = hogo.reqs[d].url
         /\ IF hogo.reqs[c].h = "waiting"
              THEN \E d \in Callers \ {c} :
                     /\ Served(d) /\ hogo.reqs[d].h # "waiting"
                     /\ callers[d].rec = callers[c].rec
              ELSE findRoute(hogo.reqs[c].method, hogo.reqs[c].url) # 0 =>
                     hogo.reqs[c].h # "not found"

\* two requests whose urls differ in the query string only are both running
\* the handler, each with its own pending flight, while a third request waits
\* on one of the two flights
C27_Witness ==
  \E c, d, e \in Callers :
    /\ hogo.reqs[c].h = "running" /\ hogo.reqs[d].h = "running"
    /\ hogo.reqs[e].h = "waiting"
    /\ hogo.reqs[c].url # hogo.reqs[d].url
    /\ PathOf(hogo.reqs[c].url) = PathOf(hogo.reqs[d].url)
    /\ callers[c].rec # callers[d].rec
    /\ ~recs[callers[c].rec].completed /\ ~recs[callers[d].rec].completed
    /\ callers[e].rec = callers[c].rec


\* ------------------------------------------------------------------ C28

\* C28: a record leaves the mapping only by its own completion, its own
\* timeout or a clear(): every record that is still pending and that no
\* clear() discarded is stored in the mapping under its key, also when it
\* was created from inside a sink during the fan-out of another record
C28_OnlyTheCompletedRecordLeaves ==
  \A r \in RecIds \ cleared :
    ~recs[r].completed => flights[recs[r].key] = r

\* ------------------------------------------------------------------ C29

\* C29: the timeout error reaches the waiters of a record only through that
\* record's own timer: every invocation made by the callback of a timer is
\* made for the record the timer was armed for, never for another record of
\* the key
C29_OwnTimerOnly ==
  \A w \in Callers : \A i \in 1..Len(calls[w]) :
    calls[w][i].src[1] = "timer" => calls[w][i].src[2] = calls[w][i].rec


\* ------------------------------------------------------------------ C30

\* how many of the invocations this step adds to sink w are for record r
NewCallsFor(w, r) ==
  Cardinality({i \in 1..Len(NewCalls(w)) : NewCalls(w)[i].rec = r})

\* C30: a waiter sink that throws during the fan-out of a record does not
\* stop the completion: every other waiter registered on the record is
\* invoked for it exactly once, the record is out of the mapping and its
\* timer disarmed when the call returns, and the call (setResult, setError
\* or the timer callback) does not throw
C30_ThrowingSinkIsContained ==
  [][\A a \in Callers : \A i \in 1..Len(NewCalls(a)) :
       LET e == NewCalls(a)[i]
       IN (e.threw /\ e.src[1] # "stored") =>
            /\ ~thrown'
            /\ flights'[recs'[e.rec].key] # e.rec
            /\ e.rec \notin timers'
            /\ \A w \in Waiters(e.rec) \ {a} : NewCallsFor(w, e.rec) = 1]_vars


\* ------------------------------------------------------------------ C31

\* every call on the ship q leaves it as it is
ShipIsSealed(q) ==
  /\ \A code \in StatusCodes :
       /\ status(q, code) = q
       /\ ship_error(q, "Not Found", code) = q
  /\ header(q, "X-Custom", "1") = q
  /\ \A data \in SendData :
       /\ deliver(q, data) = q /\ json(q, data) = q
       /\ text(q, data) = q /\ html(q, data) = q

\* C31: each response is written at most once: over the handler's ship
\* calls, the originator's sink, the replay to a coalesced request, the
\* error handler and the 404 path, writeHead/end are invoked at most once
\* per request, and once a Ship has headersSent = true its status, header,
\* deliver, json, text, html and error calls write nothing and change none
\* of its stored response data
C31_WrittenAtMostOnce ==
  \A c \in Callers :
    /\ hogo.reqs[c].writes <= 1
    /\ Len(hogo.reqs[c].out) = hogo.reqs[c].writes
    /\ hogo.reqs[c].headersSent => ShipIsSealed(hogo.reqs[c])

\* one request was answered by the timeout through its sink and its handler
\* then called its ship, a coalesced one was answered through its own sink,
\* and one got the 404
C31_Witness ==
  \E c, d, e \in Callers :
    /\ hogo.reqs[c].h = "responded" /\ hogo.reqs[c].writes = 1
    /\ hogo.reqs[c].out[1].status = 500 /\ hogo.handler.m # "error"
    /\ hogo.reqs[d].h = "waiting" /\ hogo.reqs[d].writes = 1
    /\ hogo.reqs[e].h = "not found" /\ hogo.reqs[e].writes = 1


\* ------------------------------------------------------------------ C32

\* C32: clear() invokes no sink, and a sink queued on a record that clear()
\* discarded while it was pending is never invoked by a later call: not by
\* setResult or setError on the old handle, not by the completion of a newer
\* record of the key, not by a timer
C32_ClearedSinksStaySilent ==
  [][/\ Clear => calls' = calls
     /\ \A r \in cleared : \A w \in Waiters(r) : calls'[w] = calls[w]]_vars

\* clear() discarded a record with a sink queued; since then its originator
\* has reported on the old handle and a newer record of the key has completed
C32_Witness ==
  \E r \in cleared : \E q \in RecIds :
    /\ Waiters(r) # {}
    /\ callers[Originator(r)].reports = 1
    /\ q > r /\ recs[q].key = recs[r].key /\ recs[q].completed


\* --------------------------------------------------- Hogo.executeHandler

\* use(middleware)
use(ch) == [ch EXCEPT !.middlewares = @ + 1]

\* the closure next() of executeHandler
next(ch) ==
  IF ch.middlewareIndex < ch.middlewares
    THEN LET middleware == ch.middlewareIndex + 1
         IN [ch EXCEPT !.middlewareIndex = @ + 1,
                       !.stack = Append(@, middleware),
                       !.runs = Append(@, middleware)]
  ELSE IF ~ch.ship.headersSent
    THEN [ch EXCEPT !.stack = Append(@, HandlerRun),
                    !.runs = Append(@, HandlerRun),
                    !.atHandler = Append(@, [nexts |-> ch.nexts,
                                             sent |-> ch.ship.headersSent])]
  ELSE ch

\* the function that is running
Top(ch) == ch.stack[Len(ch.stack)]

Use ==
  /\ ~hogo.chain.started
  /\ hogo.chain.middlewares < MaxMiddlewares
  /\ hogo' = [hogo EXCEPT !.chain = use(@)]
  /\ UNCHANGED tvars

\* executeHandler(handler, ship, params): return await next()
ExecuteHandler ==
  /\ ~hogo.chain.started
  /\ hogo' = [hogo EXCEPT !.chain = next([@ EXCEPT !.started = TRUE])]
  /\ UNCHANGED tvars

\* the middleware that is running calls next()
CallsNext ==
  /\ hogo.chain.stack # <<>>
  /\ Top(hogo.chain) # HandlerRun
  /\ hogo.chain.nexts[Top(hogo.chain)] < MaxNextCalls
  /\ hogo' = [hogo EXCEPT !.chain =
                next([@ EXCEPT !.nexts[Top(hogo.chain)] = @ + 1])]
  /\ UNCHANGED tvars

\* the function that is running sends the response
Sends ==
  /\ hogo.chain.stack # <<>>
  /\ ~hogo.chain.ship.headersSent
  /\ hogo' = [hogo EXCEPT !.chain.ship = Send(@, hogo.handler)]
  /\ UNCHANGED tvars

\* the function that is running returns
Returns ==
  /\ hogo.chain.stack # <<>>
  /\ hogo' = [hogo EXCEPT !.chain.stack = SubSeq(@, 1, Len(@) - 1)]
  /\ UNCHANGED tvars

ChainNext == Use \/ ExecuteHandler \/ CallsNext \/ Sends \/ Returns

ChainSpec == Init /\ [][ChainNext]_vars

\* ------------------------------------------------------------------ C33

\* how many times executeHandler has run the function named x
RunsOf(x) ==
  Cardinality({i \in 1..Len(hogo.chain.runs) : hogo.chain.runs[i] = x})

\* the middlewares run so far, in the order they ran
MiddlewareRuns ==
  LET IsMiddleware(x) == x # HandlerRun
  IN SelectSeq(hogo.chain.runs, IsMiddleware)

\* C33: executeHandler runs the middlewares in the order of their
\* registration, each at most once for the request; the route handler runs
\* only after every middleware has called next() and only when no response
\* has been sent yet, and at most once for the request
C33_ChainRunsOnceInOrder ==
  /\ \A mw \in 1..MaxMiddlewares : RunsOf(mw) <= 1
  /\ \A i \in 1..Len(MiddlewareRuns) : MiddlewareRuns[i] = i
  /\ RunsOf(HandlerRun) <= 1
  /\ \A i \in 1..Len(hogo.chain.atHandler) :
       /\ ~hogo.chain.atHandler[i].sent
       /\ \A mw \in 1..hogo.chain.middlewares :
            hogo.chain.atHandler[i].nexts[mw] >= 1

\* ------------------------------------------------------------------ C34

\* request c was routed and taken up, and its own handler was started
RanHandler(c) ==
  hogo.reqs[c].h \in {"running", "responded", "returned", "threw",
                      "threw late"}

\* C34: with coalescing disabled the tracker is never used: in every
\* reachable state its mapping is empty, no record was ever registered and no
\* timer is armed, every routed request runs the handler itself, and
\* stats.coalescedRequests is 0
C34_DisabledNeverUsesTracker ==
  ~hogo.coalescingEnabled =>
    /\ MapSize = 0
    /\ recs = <<>>
    /\ timers = {}
    /\ \A c \in Callers : calls[c] = <<>>
    /\ hogo.stats.coalescedRequests = 0
    /\ \A c \in Callers :
         (Served(c) /\ findRoute(hogo.reqs[c].method, hogo.reqs[c].url) # 0)
           => RanHandler(c)

\* coalescing is disabled and every request, all for the same method and
\* url, has run the handler and has its own response
C34_Witness ==
  /\ ~hogo.coalescingEnabled
  /\ hogo.stats.totalRequests = MaxCallers
  /\ \A c \in Callers :
       /\ hogo.reqs[c].method = hogo.reqs[1].method
       /\ hogo.reqs[c].url = hogo.reqs[1].url
       /\ hogo.reqs[c].h = "returned"
       /\ hogo.reqs[c].writes = 1

=============================================================================
